---- MODULE Spec2Model ----
(***************************************************************************)
(* Model of the dataset discovery, classification, selection and volume    *)
(* normalisation logic of bone-displayer: src/src/h5_convert.py (the       *)
(* dtype-heuristic strategy) and src/src/pick_and_display.py (the strict   *)
(* name-pattern strategy, the companion lookup and the temporary files)    *)
(* and src/src/blender.py (the export of a segmentation to Blender).       *)
(*                                                                         *)
(* Dataset names are sequences of one-character strings, so that suffix,   *)
(* substring, lower-casing, splitting and the image-name regular           *)
(* expression are computed character by character as Python computes them. *)
(***************************************************************************)
EXTENDS Integers, Sequences, FiniteSets, TLC

VARIABLES
    prog,        \* the entry point this run exercises
    h5,          \* the container: its objects in discovery order
    force_kind,  \* the kind filter (--kind)
    mask_mode,   \* convert_one's mask policy
    threshold,   \* the binarization threshold, in tenths
    dry_run,     \* convert_one's dry_run flag
    enumFn,      \* the enumerator that produced out ("none" before the call)
    out,         \* the list an enumerator returned
    kindCall,    \* the last call of dataset_kind / classify_kind, with its result
    pc,          \* the position of convert_one
    candidates,  \* the candidate list
    choice,      \* the selected candidate
    arr,         \* the squeezed source array: its leading elements, in tenths
    out_arr,     \* the normalized volume
    ret,         \* how the call ended
    io,          \* the I/O performed so far, in order
    bg,          \* pick_and_display's --bg flag
    probes,      \* the keys the companion lookup has probed, in order
    bg_key,      \* the key the companion lookup accepted
    tmp_paths,   \* main's list of temporary files to delete
    disk,        \* the temporary files that exist
    slicer_args, \* the arguments handed to run_slicer, after "--"
    seed,        \* convert_one's seed argument
    bitgen,      \* the first word a generator seeded with s yields, for each s
    picks,       \* the selections of the earlier invocations of convert_one
    scene,       \* the Slicer scene: its segmentation nodes' segment counts
    verbose,     \* export_current_seg_to_blender's verbose argument
    out_format,  \* its out_format argument
    mesh_paths   \* its list of exported mesh files

cfgVars == <<prog, h5, force_kind, mask_mode, threshold, dry_run, bg, seed, bitgen,
             scene, verbose, out_format>>
enumVars == <<enumFn, out, kindCall>>
runVars == <<pc, candidates, choice, arr, out_arr, ret, io>>
pickVars == <<probes, bg_key, tmp_paths, disk, slicer_args>>
selVars == <<picks>>
blenderVars == <<mesh_paths>>
vars == <<cfgVars, enumVars, runVars, pickVars, selVars, blenderVars>>

-----------------------------------------------------------------------------
(* String literals of the source, as character sequences.                  *)

META_SUFFIX == <<"_", "m", "a", "s", "k", "_", "n", "a", "m", "e", "_", "l", "s", "t">>
NAMES_SUFFIX == <<"_", "n", "a", "m", "e", "s">>
MASK_SUBSTR == <<"_", "m", "a", "s", "k", "_">>
MASK_TOKEN == <<"m", "a", "s", "k", "_", "t", "i", "b", "i", "a">>
TIBIA == <<"_", "t", "i", "b", "i", "a", "_">>
EXT_NII == <<".", "n", "i", "i">>
EXT_GZ == <<".", "g", "z">>
EXT_NII_GZ == EXT_NII \o EXT_GZ
NEWLINE == <<"\n">>

Digits == {"0", "1", "2", "3", "4", "5", "6", "7", "8", "9"}
UpperChars == <<"A", "B", "C", "D", "E", "F", "G", "H", "I", "J", "K", "L", "M",
                "N", "O", "P", "Q", "R", "S", "T", "U", "V", "W", "X", "Y", "Z">>
LowerChars == <<"a", "b", "c", "d", "e", "f", "g", "h", "i", "j", "k", "l", "m",
                "n", "o", "p", "q", "r", "s", "t", "u", "v", "w", "x", "y", "z">>

-----------------------------------------------------------------------------
(* Python str operations.                                                  *)

\* s.endswith(suf)
EndsWith(s, suf) ==
    /\ Len(suf) <= Len(s)
    /\ SubSeq(s, Len(s) - Len(suf) + 1, Len(s)) = suf

\* the positions at which sub occurs in s
Occurrences(s, sub) ==
    {i \in 1..(Len(s) - Len(sub) + 1) : SubSeq(s, i, i + Len(sub) - 1) = sub}

\* sub in s
Contains(s, sub) == Occurrences(s, sub) # {}

\* s.lower(), on the ASCII letters
LowerChar(c) ==
    IF \E i \in DOMAIN UpperChars : UpperChars[i] = c
    THEN LowerChars[CHOOSE i \in DOMAIN UpperChars : UpperChars[i] = c]
    ELSE c

Lower(s) == [i \in DOMAIN s |-> LowerChar(s[i])]

\* s.split(sep, 1)[0]: the text before the first occurrence of sep, or all of s
SplitFirst(s, sep) ==
    IF Occurrences(s, sep) = {} THEN s
    ELSE LET first == CHOOSE i \in Occurrences(s, sep) :
                         \A j \in Occurrences(s, sep) : i <= j
         IN  SubSeq(s, 1, first - 1)

-----------------------------------------------------------------------------
(* h5_convert.py: the dtype-heuristic strategy.                            *)

is_metadata_name_case_sensitive(name) ==
    EndsWith(name, META_SUFFIX) \/ EndsWith(name, NAMES_SUFFIX)

is_metadata_name(name) ==
    EndsWith(name, META_SUFFIX) \/ EndsWith(Lower(name), NAMES_SUFFIX)

\* np.dtype(dt).kind in ("i", "u", "f")
is_numeric_dtype(dt) == dt \in {"i", "u", "f"}

is_mask_name(name) == Contains(name, MASK_SUBSTR)

is_3d_like_shape_nonneg(shape) ==
    IF Len(shape) < 3 THEN FALSE
    ELSE \A k \in (Len(shape) - 2)..Len(shape) : shape[k] >= 0

is_3d_like_shape(shape) ==
    IF Len(shape) < 3 THEN FALSE
    ELSE \A k \in (Len(shape) - 2)..Len(shape) : shape[k] > 0

dataset_kind_signed_only(name, dtype) ==
    IF is_mask_name(name) THEN "mask"
    ELSE IF dtype = "i" THEN "mask"
    ELSE "image"

dataset_kind(name, dtype) ==
    IF is_mask_name(name) THEN "mask"
    ELSE IF dtype \in {"i", "u"} THEN "mask"
    ELSE "image"

\* the visitor of list_valid_datasets: TRUE when it appends obj to out
visitor(obj, fk) ==
    /\ obj.cls = "Dataset"
    /\ ~is_metadata_name(obj.name)
    /\ is_numeric_dtype(obj.dtype)
    /\ is_3d_like_shape(obj.shape)
    /\ ~(fk \in {"image", "mask"} /\ dataset_kind(obj.name, obj.dtype) # fk)

list_valid_datasets(h, fk) ==
    LET kept == SelectSeq(h, LAMBDA o : visitor(o, fk))
    IN  [i \in 1..Len(kept) |->
            [name  |-> kept[i].name,
             shape |-> kept[i].shape,
             dtype |-> kept[i].dtype,
             kind  |-> dataset_kind(kept[i].name, kept[i].dtype)]]

-----------------------------------------------------------------------------
(* pick_and_display.py: the strict name-pattern strategy.                  *)

strip_ext(name) ==
    IF EndsWith(name, EXT_NII_GZ) THEN SubSeq(name, 1, Len(name) - 7)
    ELSE IF EndsWith(name, EXT_NII) THEN SubSeq(name, 1, Len(name) - 4)
    ELSE name

is_metadata(name) == EndsWith(name, META_SUFFIX)

\* the words of ^\d+_tibia_[LR](?:\.nii(?:\.gz)?)?
ImgNameBodies(digits) ==
    {digits \o TIBIA \o side \o ext :
        side \in {<<"L">>, <<"R">>},
        ext \in {<<>>, EXT_NII, EXT_NII_GZ}}

\* the longest prefix of s made of digits (\d+ is followed by "_", so it can
\* only match the whole run of leading digits)
DigitRun(s) ==
    LET n == Cardinality({k \in 1..Len(s) : \A j \in 1..k : s[j] \in Digits})
    IN  SubSeq(s, 1, n)

\* IMG_NAME_RE.match(s): in Python "$" matches at the end of the string and
\* also just before a newline that ends the string
IMG_NAME_RE_match(s) ==
    /\ Len(DigitRun(s)) >= 1
    /\ \/ s \in ImgNameBodies(DigitRun(s))
       \/ /\ EndsWith(s, NEWLINE)
          /\ SubSeq(s, 1, Len(s) - 1) \in ImgNameBodies(DigitRun(s))

classify_kind(name) ==
    LET base == strip_ext(name)
    IN  IF Contains(base, MASK_TOKEN) THEN "mask"
        ELSE IF IMG_NAME_RE_match(name) \/ IMG_NAME_RE_match(base) THEN "image"
        ELSE "other"

\* the visitor of list_candidates: TRUE when it appends obj to out
visit(obj, fk) ==
    /\ obj.cls = "Dataset"
    /\ ~is_metadata(obj.name)
    /\ is_numeric_dtype(obj.dtype)
    /\ classify_kind(obj.name) # "other"
    /\ ~(fk \in {"image", "mask"} /\ classify_kind(obj.name) # fk)
    /\ ~(Len(obj.shape) < 3
         \/ \E k \in (Len(obj.shape) - 2)..Len(obj.shape) : obj.shape[k] <= 0)

list_candidates(h, fk) ==
    LET kept == SelectSeq(h, LAMBDA o : visit(o, fk))
    IN  [i \in 1..Len(kept) |->
            [name  |-> kept[i].name,
             kind  |-> classify_kind(kept[i].name),
             shape |-> kept[i].shape,
             dtype |-> kept[i].dtype]]

-----------------------------------------------------------------------------
(* Bounds and input universes.                                             *)

MaxRank == 4      \* shapes have rank 0..MaxRank
MaxDim == 2       \* and extents 0..MaxDim
MaxEntries == 2   \* objects in a multi-object container

S_vol == <<"v", "o", "l">>
S_id7 == <<"7">>
S_id12 == <<"1", "2">>
S_x == <<"x">>
S_L == <<"L">>
S_R == <<"R">>

\* names are Stem \o Mid \o Tail
Stems ==
    { S_vol,
      S_id7 \o TIBIA \o S_L,
      S_id12 \o TIBIA \o S_R,
      TIBIA \o S_L,
      S_x \o S_id7 \o TIBIA \o S_L,
      S_id7 \o TIBIA \o S_x }
Mids ==
    { <<>>,
      MASK_SUBSTR \o <<"1">>,
      <<"_">> \o MASK_TOKEN \o <<"_", "L">>,
      MASK_TOKEN }
Tails ==
    { <<>>, EXT_NII, EXT_NII_GZ, EXT_NII \o EXT_NII, EXT_GZ, NEWLINE,
      NAMES_SUFFIX,
      <<"_", "N", "A", "M", "E", "S">>,
      <<"_", "N", "a", "m", "e", "s">>,
      <<"n", "a", "m", "e", "s">>,
      META_SUFFIX }
AllNames == {s \o m \o t : s \in Stems, m \in Mids, t \in Tails}

RepNames ==
    { S_vol,
      S_vol \o META_SUFFIX,
      S_id7 \o TIBIA \o S_L,
      S_id7 \o TIBIA \o S_L \o <<"_">> \o MASK_TOKEN \o <<"_", "L">> }

\* np.dtype kinds: signed, unsigned, float, bool, byte string
DTypes == {"i", "u", "f", "b", "S"}

AllShapes == UNION {[1..r -> 0..MaxDim] : r \in 0..MaxRank}
RepShapes == {<<2, 2, 2>>, <<1, 2, 2, 2>>, <<2, 2>>, <<2, 0, 2>>}

Dataset(n, dt, sh) == [name |-> n, cls |-> "Dataset", dtype |-> dt, shape |-> sh]
Group(n) == [name |-> n, cls |-> "Group", dtype |-> "none", shape |-> <<>>]

\* every name with a few shapes, a few names with every shape, and groups
Objects ==
    {Dataset(n, dt, sh) : n \in AllNames, dt \in DTypes, sh \in RepShapes}
    \cup {Dataset(n, dt, sh) : n \in RepNames, dt \in DTypes, sh \in AllShapes}
    \cup {Group(n) : n \in RepNames}

\* objects of the multi-object containers, in h5py's traversal order (by name);
\* a container holds at most one of the objects that share a name
SampleObjects ==
    << Dataset(S_id7 \o TIBIA \o S_L, "f", <<2, 2, 2>>),
       Dataset(S_id7 \o TIBIA \o S_L \o <<"_">> \o MASK_TOKEN \o <<"_", "L">>,
               "u", <<2, 2, 2>>),
       Group(<<"g", "r", "p">>),
       Dataset(S_vol, "f", <<1, 2, 2, 2>>),
       Dataset(S_vol, "f", <<2, 2>>),
       Dataset(S_vol, "f", <<2, 2, 2, 2>>),
       Dataset(S_vol, "S", <<2, 2, 2>>),
       Dataset(S_vol \o MASK_SUBSTR \o <<"1">>, "f", <<2, 2, 2>>),
       Dataset(S_vol \o META_SUFFIX, "i", <<2>>),
       Dataset(S_vol \o META_SUFFIX, "i", <<2, 2, 2>>),
       Dataset(S_x, "i", <<1, 2, 2, 2>>) >>

\* names are unique within a container
UniqueNames(h) == \A i, j \in DOMAIN h : h[i].name = h[j].name => i = j

\* the objects of list at the positions S, in list order
RECURSIVE SeqFrom(_, _, _)
SeqFrom(list, S, i) ==
    IF i > Len(list) THEN <<>>
    ELSE (IF i \in S THEN <<list[i]>> ELSE <<>>) \o SeqFrom(list, S, i + 1)

\* the containers of at most max objects of list
Containers(list, max) ==
    {h \in {SeqFrom(list, S, 1) :
               S \in {T \in SUBSET (1..Len(list)) : Cardinality(T) <= max}} :
        UniqueNames(h)}

EnumContainers ==
    {<<o>> : o \in Objects} \cup Containers(SampleObjects, MaxEntries)

\* force_kind: "any" (h5_convert's default), "None" (pick_and_display's)
ForceKinds == {"any", "None", "image", "mask"}

-----------------------------------------------------------------------------
(* Enumeration and classification, applied to a container.                 *)

NoCall == [fn |-> "none", name |-> <<>>, dtype |-> "none", kind |-> "none"]

\* Python's None, where a name or a path is expected
None == <<"None">>
NoChoice == [name |-> None, kind |-> "none", shape |-> <<>>, dtype |-> "none"]
NoVolume == [dtype |-> "none", data |-> <<>>]
NoRet == [status |-> "none", path |-> None, name |-> None, exc |-> "none"]

\* the state of a run that has not started
RunIdle ==
    /\ pc = "start"
    /\ candidates = <<>>
    /\ choice = NoChoice
    /\ arr = <<>>
    /\ out_arr = NoVolume
    /\ ret = NoRet
    /\ io = <<>>

\* main's companion lookup and temporary files, before main runs
PickIdle ==
    /\ probes = <<>>
    /\ bg_key = None
    /\ tmp_paths = <<>>
    /\ disk = {}
    /\ slicer_args = <<>>

DEFAULT_THRESHOLD == 5   \* 0.5

MaxWord == 2   \* a generator yields a word in 0..MaxWord
MaxRuns == 2   \* invocations of convert_one with the same arguments

\* seed: None, or an integer
NoSeed == [given |-> FALSE, value |-> 0]
Seeded(s) == [given |-> TRUE, value |-> s]
Seeds == {0, 7}

\* a generator that ignores its seed and draws fresh entropy each time
rng_integers_fresh_entropy(g, low, high) == low..(high - 1)

\* np.random.default_rng(sd): a new generator; seeded, its first word is the
\* one the seed determines, and unseeded it is fresh entropy
default_rng(sd) ==
    IF sd.given THEN [seeded |-> TRUE, word |-> bitgen[sd.value]]
    ELSE [seeded |-> FALSE, word |-> 0]

\* g.integers(low, high), the first draw of g: the values it can return
rng_integers(g, low, high) ==
    IF g.seeded THEN {low + (g.word % (high - low))}
    ELSE low..(high - 1)

\* no seed was given and convert_one has not been invoked before
SeedIdle ==
    /\ seed = NoSeed
    /\ bitgen = [s \in Seeds |-> 0]
    /\ picks = <<>>

FMT_STL == <<"s", "t", "l">>

\* export_current_seg_to_blender's defaults, an empty scene, nothing exported
BlenderIdle ==
    /\ scene = <<>>
    /\ verbose = TRUE
    /\ out_format = FMT_STL
    /\ mesh_paths = <<>>

InitEnum ==
    /\ prog = "enum"
    /\ h5 \in EnumContainers
    /\ force_kind \in ForceKinds
    /\ mask_mode = "auto" /\ threshold = DEFAULT_THRESHOLD /\ dry_run = FALSE
    /\ bg = FALSE
    /\ enumFn = "none"
    /\ out = <<>>
    /\ kindCall = NoCall
    /\ RunIdle
    /\ PickIdle
    /\ SeedIdle
    /\ BlenderIdle

ListValidDatasets ==
    /\ prog = "enum"
    /\ enumFn = "none" /\ kindCall.fn = "none"
    /\ enumFn' = "list_valid_datasets"
    /\ out' = list_valid_datasets(h5, force_kind)
    /\ UNCHANGED <<cfgVars, selVars, blenderVars, pickVars, kindCall, runVars>>

ListCandidates ==
    /\ prog = "enum"
    /\ enumFn = "none" /\ kindCall.fn = "none"
    /\ enumFn' = "list_candidates"
    /\ out' = list_candidates(h5, force_kind)
    /\ UNCHANGED <<cfgVars, selVars, blenderVars, pickVars, kindCall, runVars>>

DatasetKind ==
    /\ prog = "enum"
    /\ enumFn = "none" /\ kindCall.fn = "none"
    /\ \E i \in DOMAIN h5 :
          /\ h5[i].cls = "Dataset"
          /\ kindCall' = [fn |-> "dataset_kind", name |-> h5[i].name,
                          dtype |-> h5[i].dtype,
                          kind |-> dataset_kind(h5[i].name, h5[i].dtype)]
    /\ UNCHANGED <<cfgVars, selVars, blenderVars, pickVars, enumFn, out, runVars>>

ClassifyKind ==
    /\ prog = "enum"
    /\ enumFn = "none" /\ kindCall.fn = "none"
    /\ \E i \in DOMAIN h5 :
          /\ h5[i].cls = "Dataset"
          /\ kindCall' = [fn |-> "classify_kind", name |-> h5[i].name,
                          dtype |-> h5[i].dtype,
                          kind |-> classify_kind(h5[i].name)]
    /\ UNCHANGED <<cfgVars, selVars, blenderVars, pickVars, enumFn, out, runVars>>

NextEnum == ListValidDatasets \/ ListCandidates \/ DatasetKind \/ ClassifyKind

SpecEnum == InitEnum /\ [][NextEnum]_vars

-----------------------------------------------------------------------------
(* Reference predicates the claims are stated with, written from the       *)
(* claims' words and independently of the operators above.                 *)

\* n = p \o suf for some prefix p
RefHasSuffix(n, suf) == \E k \in 0..Len(n) : SubSeq(n, 1, k) \o suf = n

\* sub occurs in n: some window of n spells sub
RefHasSubstring(n, sub) ==
    \E i \in 0..(Len(n) - Len(sub)) : \A k \in 1..Len(sub) : n[i + k] = sub[k]

RefUpperChar(c) ==
    IF \E i \in DOMAIN LowerChars : LowerChars[i] = c
    THEN UpperChars[CHOOSE i \in DOMAIN LowerChars : LowerChars[i] = c]
    ELSE c

\* n ends with suf spelled in any mix of upper and lower case
RefHasSuffixAnyCase(n, suf) ==
    /\ Len(n) >= Len(suf)
    /\ \A k \in 1..Len(suf) :
          n[Len(n) - Len(suf) + k] \in {suf[k], RefUpperChar(suf[k])}

RefMetadataName(n) ==
    \/ RefHasSuffix(n, META_SUFFIX)
    \/ RefHasSuffixAnyCase(n, NAMES_SUFFIX)

RefShapeOk(sh) ==
    LET r == Len(sh)
    IN  r >= 3 /\ sh[r - 2] > 0 /\ sh[r - 1] > 0 /\ sh[r] > 0

\* C1: list_valid_datasets never returns a dataset whose name ends with
\* "_mask_name_lst", or with "_names" in any letter case, whatever its dtype,
\* shape or force_kind, and also when the name contains "_mask_".
C1_MetadataNeverListed ==
    enumFn = "list_valid_datasets" =>
        \A i \in DOMAIN out : ~RefMetadataName(out[i].name)

\* an integer, 3D-shaped dataset whose name contains "_mask_" and ends with a
\* metadata suffix was enumerated with a filter that admits masks, and is absent
C1_Witness ==
    /\ enumFn = "list_valid_datasets"
    /\ force_kind = "mask"
    /\ \E i \in DOMAIN h5 :
          /\ h5[i].cls = "Dataset"
          /\ h5[i].dtype = "i"
          /\ h5[i].shape = <<2, 2, 2>>
          /\ RefHasSubstring(h5[i].name, MASK_SUBSTR)
          /\ RefHasSuffix(h5[i].name, <<"_", "N", "a", "m", "e", "s">>)
          /\ \A k \in DOMAIN out : out[k].name # h5[i].name

\* C2: every dataset returned by list_valid_datasets or list_candidates has
\* rank >= 3 and its last three extents are > 0.
C2_ShapeGate ==
    enumFn \in {"list_valid_datasets", "list_candidates"} =>
        \A i \in DOMAIN out : RefShapeOk(out[i].shape)

\* a two-dataset container of which the rank-2 dataset was dropped and the
\* other returned, though name and dtype made both eligible
C2_Witness ==
    /\ enumFn = "list_valid_datasets"
    /\ Len(h5) = 2 /\ Len(out) = 1
    /\ \E i \in DOMAIN h5 :
          /\ h5[i].cls = "Dataset"
          /\ Len(h5[i].shape) = 2
          /\ h5[i].dtype = "f"
          /\ ~RefMetadataName(h5[i].name)
          /\ out[1].name # h5[i].name

\* C3: for every numeric dtype and every name, dataset_kind is "mask" if the
\* name contains "_mask_", else "mask" if the dtype is a signed or unsigned
\* integer, else "image".
C3_DatasetKindRule ==
    (kindCall.fn = "dataset_kind" /\ kindCall.dtype \in {"i", "u", "f"}) =>
        kindCall.kind =
            (IF RefHasSubstring(kindCall.name, MASK_SUBSTR) THEN "mask"
             ELSE IF kindCall.dtype = "f" THEN "image"
             ELSE "mask")

\* an unsigned-integer dataset whose name carries neither the mask substring
\* nor a metadata suffix was classified as a mask
C3_Witness ==
    /\ kindCall.fn = "dataset_kind"
    /\ kindCall.dtype = "u"
    /\ ~RefHasSubstring(kindCall.name, MASK_SUBSTR)
    /\ ~RefMetadataName(kindCall.name)
    /\ kindCall.kind = "mask"

RefStripExt(n) ==
    IF RefHasSuffix(n, EXT_NII_GZ) THEN SubSeq(n, 1, Len(n) - Len(EXT_NII_GZ))
    ELSE IF RefHasSuffix(n, EXT_NII) THEN SubSeq(n, 1, Len(n) - Len(EXT_NII))
    ELSE n

\* n is <digits>_tibia_<L|R> with an optional .nii or .nii.gz extension
RefStrictImageName(n) ==
    \E k \in 1..Len(n) :
        /\ \A j \in 1..k : n[j] \in Digits
        /\ SubSeq(n, k + 1, Len(n)) \in
              {TIBIA \o side \o ext : side \in {<<"L">>, <<"R">>},
                                      ext \in {<<>>, EXT_NII, EXT_NII_GZ}}

RefStrictKind(n) ==
    IF RefHasSubstring(RefStripExt(n), MASK_TOKEN) THEN "mask"
    ELSE IF RefStrictImageName(n) THEN "image"
    ELSE "other"

\* C4: under the strict name pattern a name is a mask exactly when, stripped of
\* a trailing .nii / .nii.gz, it contains "mask_tibia"; an image exactly when
\* it does not and matches <digits>_tibia_<L|R> with an optional .nii or
\* .nii.gz extension; and otherwise ineligible and never a candidate.
C4_StrictPattern ==
    /\ kindCall.fn = "classify_kind" =>
          kindCall.kind = RefStrictKind(kindCall.name)
    /\ enumFn = "list_candidates" =>
          \A i \in DOMAIN out :
              /\ out[i].kind = RefStrictKind(out[i].name)
              /\ out[i].kind \in {"mask", "image"}

-----------------------------------------------------------------------------
(* h5_convert.py: extraction and normalisation.  Element values are kept   *)
(* in tenths (0.5 is 5, the integer 2 is 20); a volume written out holds   *)
(* whole numbers for uint8 and tenths for float32.                         *)

Whole(n) == 10 * n

\* np.squeeze: the extents other than 1
squeeze(shape) == SelectSeq(shape, LAMBDA d : d # 1)

\* squeeze_to_3d returns (TRUE) or raises ValueError (FALSE)
squeeze_to_3d_ok(shape) == Len(squeeze(shape)) = 3

RECURSIVE Prod(_)
Prod(shape) == IF shape = <<>> THEN 1 ELSE Head(shape) * Prod(Tail(shape))

Min(a, b) == IF a < b THEN a ELSE b

\* sanitize_filename
RECURSIVE StripSlashes(_)
StripSlashes(s) ==
    IF s # <<>> /\ Head(s) = "/" THEN StripSlashes(Tail(s))
    ELSE IF s # <<>> /\ s[Len(s)] = "/" THEN StripSlashes(SubSeq(s, 1, Len(s) - 1))
    ELSE s

SafeChars ==
    Digits \cup {UpperChars[i] : i \in DOMAIN UpperChars}
           \cup {LowerChars[i] : i \in DOMAIN LowerChars} \cup {"_", ".", "-"}

sanitize_filename(name) ==
    LET base == StripSlashes(name)
    IN  [i \in DOMAIN base |-> IF base[i] \in SafeChars THEN base[i] ELSE "_"]

\* (v > threshold).astype(np.uint8)
Binarize_ge(v, thr) == IF v >= thr THEN 1 ELSE 0

Binarize(v, thr) == IF v > thr THEN 1 ELSE 0

\* np.rint: to the nearest whole number, halves to the even one
Rint(v) ==
    LET q == v \div 10
        r == v % 10
    IN  IF r < 5 THEN q
        ELSE IF r > 5 THEN q + 1
        ELSE IF q % 2 = 0 THEN q ELSE q + 1

\* integer array .astype(np.uint8): the value modulo 2^8
CastIntToU8(v) == (v \div 10) % 256

\* float array .astype(np.uint8) of a whole number w: w itself when uint8 can
\* hold it; otherwise the C conversion is undefined, and the build gives the
\* wrapped or the saturated value
CastFloatToU8(w) ==
    IF w \in 0..255 THEN {w}
    ELSE {w % 256, IF w < 0 THEN 0 ELSE 255}

KnownMaskModes == {"auto", "threshold", "round"}

\* the mask branch of convert_one with "auto" thresholding integers too
MaskElem_auto_binarizes(dtype, v, mode, thr) ==
    IF mode = "auto" THEN {Binarize(v, thr)}
    ELSE IF mode = "threshold" THEN {Binarize(v, thr)}
    ELSE CastFloatToU8(Rint(v))

\* the mask branch of convert_one on one element: the values out_arr can hold
MaskElem(dtype, v, mode, thr) ==
    IF mode = "auto"
    THEN IF dtype \in {"i", "u"} THEN {CastIntToU8(v)} ELSE {Binarize(v, thr)}
    ELSE IF mode = "threshold" THEN {Binarize(v, thr)}
    ELSE CastFloatToU8(Rint(v))

\* the arrays the mask branch can produce from a
MaskArrays(dtype, a, mode, thr) ==
    {o \in [DOMAIN a -> UNION {MaskElem(dtype, a[i], mode, thr) : i \in DOMAIN a}] :
        \A i \in DOMAIN a : o[i] \in MaskElem(dtype, a[i], mode, thr)}

-----------------------------------------------------------------------------
(* convert_one, step by step.                                              *)

MaxElems == 3    \* elements of an array that the normalisation runs carry
ReadElems == 1   \* elements of an array that a whole run carries

\* element values in tenths, by dtype kind
NormVals(dtype) ==
    IF dtype = "f" THEN {-5, 0, 2, 5, 6, 10, 15, 25}
    ELSE IF dtype = "i" THEN {Whole(n) : n \in {-1, 0, 1, 2, 255, 256}}
    ELSE {Whole(n) : n \in {0, 1, 2, 255, 256}}
ReadVals(dtype) ==
    IF dtype = "f" THEN {2, 6} ELSE {Whole(0), Whole(2)}

\* the n leading elements of a dataset of this shape, drawn from vals
ArraysOf(shape, vals, n) == [1..Min(Prod(shape), n) -> vals]

MaskModes == KnownMaskModes \cup {"nearest"}
Thresholds == {DEFAULT_THRESHOLD, -5, 0, 3, 10}

Returned(path, name) ==
    [status |-> "return", path |-> path, name |-> name, exc |-> "none"]
Raised(exc) == [status |-> "raise", path |-> None, name |-> None, exc |-> exc]

OUT_EXT == EXT_NII_GZ
out_path(name) == sanitize_filename(name) \o OUT_EXT

\* with h5py.File(h5_path, "r") as f: the open succeeds or raises
ConvOpen ==
    /\ prog = "convert_one" /\ pc = "start"
    /\ \/ /\ io' = Append(io, "open")
          /\ pc' = "opened"
          /\ ret' = ret
       \/ /\ io' = io
          /\ pc' = "done"
          /\ ret' = Raised("OSError")
    /\ UNCHANGED <<cfgVars, selVars, blenderVars, pickVars, enumVars, candidates, choice, arr, out_arr>>

\* ConvList without the "if not candidates" early return
ConvList_unchecked ==
    /\ prog = "convert_one" /\ pc = "opened"
    /\ candidates' = list_valid_datasets(h5, force_kind)
    /\ ret' = ret
    /\ io' = Append(io, "visititems")
    /\ pc' = "listed"
    /\ UNCHANGED <<cfgVars, selVars, blenderVars, pickVars, enumVars, choice, arr, out_arr>>

\* candidates = list_valid_datasets(f, ...); if not candidates: return None, None
ConvList ==
    /\ prog = "convert_one" /\ pc = "opened"
    /\ candidates' = list_valid_datasets(h5, force_kind)
    /\ IF candidates' = <<>>
       THEN /\ ret' = Returned(None, None)
            /\ io' = io \o <<"visititems", "close">>
            /\ pc' = "done"
       ELSE /\ ret' = ret
            /\ io' = Append(io, "visititems")
            /\ pc' = "listed"
    /\ UNCHANGED <<cfgVars, selVars, blenderVars, pickVars, enumVars, choice, arr, out_arr>>

\* choice = candidates[rng.integers(0, len(candidates))]; if dry_run: return
ConvSelect ==
    /\ prog = "convert_one" /\ pc = "listed"
    /\ \E k \in rng_integers(default_rng(seed), 0, Len(candidates)) :
          choice' = candidates[k + 1]
    /\ IF dry_run
       THEN /\ ret' = Returned(None, choice'.name)
            /\ io' = Append(io, "close")
            /\ pc' = "done"
       ELSE /\ ret' = ret
            /\ io' = io
            /\ pc' = "selected"
    /\ UNCHANGED <<cfgVars, selVars, blenderVars, pickVars, enumVars, candidates, arr, out_arr>>

\* ds = f[name]; arr = squeeze_to_3d(ds[()])
ConvRead ==
    /\ prog = "convert_one" /\ pc = "selected"
    /\ IF squeeze_to_3d_ok(choice.shape)
       THEN /\ arr' \in ArraysOf(choice.shape, ReadVals(choice.dtype), ReadElems)
            /\ io' = Append(io, "read")
            /\ ret' = ret
            /\ pc' = "read"
       ELSE /\ arr' = arr
            /\ io' = io \o <<"read", "close">>
            /\ ret' = Raised("ValueError")
            /\ pc' = "done"
    /\ UNCHANGED <<cfgVars, selVars, blenderVars, pickVars, enumVars, candidates, choice, out_arr>>

\* os.makedirs(out_dir, exist_ok=True): succeeds or raises
ConvMakedirs ==
    /\ prog = "convert_one" /\ pc = "read"
    /\ \/ /\ io' = Append(io, "makedirs")
          /\ pc' = "dir"
          /\ ret' = ret
       \/ /\ io' = Append(io, "close")
          /\ pc' = "done"
          /\ ret' = Raised("OSError")
    /\ UNCHANGED <<cfgVars, selVars, blenderVars, pickVars, enumVars, candidates, choice, arr, out_arr>>

\* the kind == "mask" / else branches up to out_arr
ConvNormalize ==
    /\ prog = "convert_one" /\ pc = "dir"
    /\ IF choice.kind = "mask"
       THEN IF mask_mode \in KnownMaskModes
            THEN /\ \E o \in MaskArrays(choice.dtype, arr, mask_mode, threshold) :
                       out_arr' = [dtype |-> "uint8", data |-> o]
                 /\ UNCHANGED <<ret, io>>
                 /\ pc' = "normalized"
            ELSE /\ out_arr' = out_arr
                 /\ ret' = Raised("ValueError")
                 /\ io' = Append(io, "close")
                 /\ pc' = "done"
       ELSE /\ out_arr' = [dtype |-> "float32", data |-> arr]
            /\ UNCHANGED <<ret, io>>
            /\ pc' = "normalized"
    /\ UNCHANGED <<cfgVars, selVars, blenderVars, pickVars, enumVars, candidates, choice, arr>>

\* nib.save(...): succeeds or raises
ConvSave ==
    /\ prog = "convert_one" /\ pc = "normalized"
    /\ \/ /\ io' = Append(io, "save")
          /\ pc' = "saved"
          /\ ret' = ret
       \/ /\ io' = Append(io, "close")
          /\ pc' = "done"
          /\ ret' = Raised("OSError")
    /\ UNCHANGED <<cfgVars, selVars, blenderVars, pickVars, enumVars, candidates, choice, arr, out_arr>>

\* return out_path, name (leaving the with block closes the file)
ConvReturn ==
    /\ prog = "convert_one" /\ pc = "saved"
    /\ ret' = Returned(out_path(choice.name), choice.name)
    /\ io' = Append(io, "close")
    /\ pc' = "done"
    /\ UNCHANGED <<cfgVars, selVars, blenderVars, pickVars, enumVars, candidates, choice, arr, out_arr>>

EnumIdle == enumFn = "none" /\ out = <<>> /\ kindCall = NoCall

InitConvert ==
    /\ prog = "convert_one"
    /\ h5 \in Containers(SampleObjects, MaxEntries)
    /\ force_kind \in {"any", "image", "mask"}
    /\ mask_mode \in MaskModes
    /\ threshold = DEFAULT_THRESHOLD
    /\ dry_run \in BOOLEAN
    /\ bg = FALSE
    /\ EnumIdle
    /\ RunIdle
    /\ PickIdle
    /\ SeedIdle
    /\ BlenderIdle

NextConvert ==
    \/ ConvOpen \/ ConvList \/ ConvSelect \/ ConvRead
    \/ ConvMakedirs \/ ConvNormalize \/ ConvSave \/ ConvReturn

SpecConvert == InitConvert /\ [][NextConvert]_vars

\* convert_one at its mask branch: a mask dataset was selected, read and
\* squeezed, and the output directory exists
InitNorm ==
    /\ prog = "convert_one"
    /\ \E dt \in {"i", "u", "f"} :
          /\ h5 = <<Dataset(S_vol \o MASK_SUBSTR \o <<"1">>, dt, <<2, 2, 2>>)>>
          /\ arr \in ArraysOf(<<2, 2, 2>>, NormVals(dt), MaxElems)
    /\ force_kind = "any"
    /\ mask_mode \in MaskModes
    /\ threshold \in Thresholds
    /\ dry_run = FALSE
    /\ bg = FALSE
    /\ EnumIdle
    /\ PickIdle
    /\ SeedIdle
    /\ BlenderIdle
    /\ candidates = list_valid_datasets(h5, force_kind)
    /\ choice = candidates[1]
    /\ out_arr = NoVolume
    /\ ret = NoRet
    /\ io = <<"open", "visititems", "read", "makedirs">>
    /\ pc = "dir"

NextNorm == ConvNormalize \/ ConvSave \/ ConvReturn

SpecNorm == InitNorm /\ [][NextNorm]_vars

-----------------------------------------------------------------------------
(* Claims about convert_one.                                               *)

Did(op) == \E i \in DOMAIN io : io[i] = op

\* C5: when the candidate list is empty, convert_one returns (None, None)
\* without raising and without reading a dataset, creating the output
\* directory or writing a file.
C5_EmptyReturnsNone ==
    (Did("visititems") /\ candidates = <<>>) =>
        /\ pc = "done"
        /\ ret.status = "return" /\ ret.path = None /\ ret.name = None
        /\ ~Did("read") /\ ~Did("makedirs") /\ ~Did("save")

\* a container that holds datasets, none of them eligible, was enumerated
C5_Witness ==
    /\ prog = "convert_one"
    /\ Did("visititems") /\ candidates = <<>>
    /\ \E i \in DOMAIN h5 : h5[i].cls = "Dataset"
    /\ ret.status = "return"

\* C6: an unknown mask_mode always makes convert_one fail with a
\* configuration error, before the container is opened, a dataset is read or
\* the output directory is created, whatever the selected kind and dry_run.
C6_UnknownModeFailsFast ==
    (prog = "convert_one" /\ mask_mode \notin {"auto", "threshold", "round"}) =>
        /\ io = <<>>
        /\ (pc = "done" /\ ret.exc # "OSError") =>
              (ret.status = "raise" /\ ret.exc = "ValueError")

IsBinary(a) == \A i \in DOMAIN a : a[i] \in {Whole(0), Whole(1)}
SameValues(o, a) ==
    DOMAIN o = DOMAIN a /\ \A i \in DOMAIN a : Whole(o[i]) = a[i]

\* C7 as stated: on a mask array of zeros and ones, the round policy and the
\* threshold policy, with any configured threshold, give the input values back.
C7_IdempotentAnyThreshold ==
    (out_arr.dtype = "uint8" /\ mask_mode \in {"round", "threshold"}
        /\ IsBinary(arr)) => SameValues(out_arr.data, arr)

\* C7 as amended: on a mask array of zeros and ones, the round policy, and the
\* threshold policy with a threshold t such that 0 <= t < 1 (the default 0.5
\* is one), give the input values back.
C7_IdempotentUnitThreshold ==
    (out_arr.dtype = "uint8" /\ mask_mode \in {"round", "threshold"}
        /\ (mask_mode = "threshold" => (Whole(0) <= threshold /\ threshold < Whole(1)))
        /\ IsBinary(arr)) => SameValues(out_arr.data, arr)

\* a float mask holding both 0.0 and 1.0 was thresholded at 0 and came back
C7_Witness ==
    /\ mask_mode = "threshold" /\ threshold = 0
    /\ choice.dtype = "f"
    /\ IsBinary(arr)
    /\ \E i, j \in DOMAIN arr : arr[i] = Whole(0) /\ arr[j] = Whole(1)
    /\ out_arr.dtype = "uint8" /\ SameValues(out_arr.data, arr)

\* C8: under threshold every element becomes 1 if it is strictly greater than
\* the threshold and 0 otherwise, whatever the source dtype; under auto a float
\* source is binarized the same way and an integer source is cast to uint8
\* without thresholding, so a label in 0..255 is unchanged.
C8_PolicyTable ==
    out_arr.dtype = "uint8" =>
        \A i \in DOMAIN arr :
            /\ (mask_mode = "threshold" \/ (mask_mode = "auto" /\ choice.dtype = "f")) =>
                  /\ arr[i] > threshold => out_arr.data[i] = 1
                  /\ arr[i] <= threshold => out_arr.data[i] = 0
            /\ (mask_mode = "auto" /\ choice.dtype \in {"i", "u"}
                  /\ arr[i] \in {Whole(n) : n \in 0..255}) =>
                  Whole(out_arr.data[i]) = arr[i]

\* the float array [0.2, 0.6, 0.5] thresholded at 0.5 gave [0, 1, 0], and so a
\* value equal to the threshold gave 0
C8_Witness ==
    /\ mask_mode = "threshold" /\ threshold = DEFAULT_THRESHOLD
    /\ choice.dtype = "f"
    /\ arr = <<2, 6, 5>>
    /\ out_arr = [dtype |-> "uint8", data |-> <<0, 1, 0>>]

\* under auto an integer label 2 and a label 255 were kept
C8_WitnessLabels ==
    /\ mask_mode = "auto" /\ choice.dtype = "u"
    /\ arr = <<Whole(2), Whole(255), Whole(1)>>
    /\ out_arr = [dtype |-> "uint8", data |-> <<2, 255, 1>>]

-----------------------------------------------------------------------------
(* pick_and_display.py: main, step by step.                                *)

base_from_mask_bare_token(name) ==
    IF Contains(name, MASK_TOKEN) THEN SplitFirst(name, MASK_TOKEN) ELSE name

base_from_mask(name) ==
    IF Contains(name, MASK_TOKEN) THEN SplitFirst(name, <<"_">> \o MASK_TOKEN)
    ELSE name

ProbeKeys_longest_first(base) == <<base \o EXT_NII_GZ, base \o EXT_NII, base>>

\* for bg_key in (base, base + ".nii", base + ".nii.gz")
ProbeKeys(base) == <<base, base \o EXT_NII, base \o EXT_NII_GZ>>

\* bg_key in f
InContainer(key) == \E i \in DOMAIN h5 : h5[i].name = key

\* f[key]
Lookup(key) == h5[CHOOSE i \in DOMAIN h5 : h5[i].name = key]

\* the mask branch of main on one element
LabElem(dtype, v, thr) ==
    IF dtype \in {"i", "u"} THEN Binarize(v, Whole(0)) ELSE Binarize(v, thr)

Exited(code) == [status |-> "exit", path |-> None, name |-> None, exc |-> code]

S_tibia_L == S_id7 \o TIBIA \o S_L
S_mask_tibia == <<"_">> \o MASK_TOKEN

\* the datasets main's containers are made of, in traversal order (by name)
PickObjects ==
    << Dataset(S_tibia_L, "f", <<2, 2, 2>>),
       Dataset(S_tibia_L, "f", <<2, 2>>),
       Dataset(S_tibia_L \o EXT_NII, "f", <<2, 2, 2>>),
       Dataset(S_tibia_L \o EXT_NII_GZ, "f", <<1, 2, 2, 2>>),
       Dataset(S_tibia_L \o EXT_NII \o S_mask_tibia \o <<"_", "L">>, "u", <<2, 2, 2>>),
       Dataset(S_tibia_L \o S_mask_tibia \o <<"_", "L">>, "u", <<2, 2, 2>>),
       Dataset(S_tibia_L \o S_mask_tibia \o <<"_", "L">>, "f", <<1, 2, 2, 2>>),
       Dataset(S_tibia_L \o MASK_SUBSTR \o S_x \o S_mask_tibia \o <<"_", "L">>,
               "u", <<2, 2, 2>>),
       Dataset(<<"f", "o", "o">>, "f", <<2, 2, 2>>),
       Dataset(<<"f", "o", "o">> \o S_mask_tibia \o <<"_", "L">>, "i", <<2, 2, 2, 2>>),
       Dataset(MASK_TOKEN \o <<"_", "L">>, "u", <<2, 2, 2>>),
       Dataset(MASK_TOKEN \o <<"_", "L">> \o S_mask_tibia \o <<"_", "R">>,
               "f", <<2, 2, 2>>) >>

MaxPickEntries == 3   \* datasets in one of main's containers

\* temp_nifti_from_array(a): NamedTemporaryFile(delete=False) creates the file,
\* then sitk.WriteImage writes it or raises.  written: the path was returned
\* and appended to tmp_paths.
TempNifti(path, written, nextPc) ==
    /\ disk' = disk \cup {path}
    /\ IF written
       THEN /\ tmp_paths' = Append(tmp_paths, path)
            /\ pc' = nextPc
            /\ UNCHANGED <<ret, io>>
       ELSE /\ tmp_paths' = tmp_paths
            /\ pc' = "finally"
            /\ ret' = Raised("RuntimeError")
            /\ io' = Append(io, "close")

\* with h5py.File(args.h5_path, "r") as f
PickOpen ==
    /\ prog = "main" /\ pc = "start"
    /\ \/ /\ io' = Append(io, "open")
          /\ pc' = "opened"
          /\ ret' = ret
       \/ /\ io' = io
          /\ pc' = "finally"
          /\ ret' = Raised("OSError")
    /\ UNCHANGED <<cfgVars, selVars, blenderVars, enumVars, pickVars, candidates, choice, arr, out_arr>>

\* cands = list_candidates(f, ...); if not cands: sys.exit(3)
PickList ==
    /\ prog = "main" /\ pc = "opened"
    /\ candidates' = list_candidates(h5, force_kind)
    /\ IF candidates' = <<>>
       THEN /\ ret' = Exited("3")
            /\ io' = io \o <<"visititems", "close">>
            /\ pc' = "finally"
       ELSE /\ ret' = ret
            /\ io' = Append(io, "visititems")
            /\ pc' = "listed"
    /\ UNCHANGED <<cfgVars, selVars, blenderVars, enumVars, pickVars, choice, arr, out_arr>>

\* pick = cands[rng.integers(0, len(cands))], with an unseeded generator
PickSelect ==
    /\ prog = "main" /\ pc = "listed"
    /\ \E k \in rng_integers(default_rng(NoSeed), 0, Len(candidates)) :
          choice' = candidates[k + 1]
    /\ pc' = "selected"
    /\ UNCHANGED <<cfgVars, selVars, blenderVars, enumVars, pickVars, candidates, arr, out_arr, ret, io>>

\* arr = squeeze_to_3d(f[name][()])
PickRead ==
    /\ prog = "main" /\ pc = "selected"
    /\ IF squeeze_to_3d_ok(choice.shape)
       THEN /\ arr' \in ArraysOf(choice.shape, ReadVals(choice.dtype), ReadElems)
            /\ io' = Append(io, "read")
            /\ ret' = ret
            /\ pc' = "read"
       ELSE /\ arr' = arr
            /\ io' = io \o <<"read", "close">>
            /\ ret' = Raised("ValueError")
            /\ pc' = "finally"
    /\ UNCHANGED <<cfgVars, selVars, blenderVars, enumVars, pickVars, candidates, choice, out_arr>>

\* kind == "image": img_path = temp_nifti_from_array(arr.astype(np.float32))
PickImageTemp ==
    /\ prog = "main" /\ pc = "read" /\ choice.kind = "image"
    /\ out_arr' = [dtype |-> "float32", data |-> arr]
    /\ \E written \in BOOLEAN : TempNifti("slicer_tmp_img", written, "ready")
    /\ UNCHANGED <<cfgVars, selVars, blenderVars, enumVars, candidates, choice, arr, probes, bg_key,
                   slicer_args>>

\* kind == "mask": lab = ...; mask_path = temp_nifti_from_array(lab)
PickMaskTemp ==
    /\ prog = "main" /\ pc = "read" /\ choice.kind = "mask"
    /\ out_arr' = [dtype |-> "uint8",
                   data |-> [i \in DOMAIN arr |->
                                LabElem(choice.dtype, arr[i], threshold)]]
    /\ \E written \in BOOLEAN :
          TempNifti("slicer_tmp_mask", written, IF bg THEN "probing" ELSE "ready")
    /\ UNCHANGED <<cfgVars, selVars, blenderVars, enumVars, candidates, choice, arr, probes, bg_key,
                   slicer_args>>

\* one turn of the probe loop: the next key, accepted when it is in the
\* container and is an image by name
PickProbe ==
    /\ prog = "main" /\ pc = "probing"
    /\ LET keys == ProbeKeys(base_from_mask(choice.name))
           key == keys[Len(probes) + 1]
       IN  /\ probes' = Append(probes, key)
           /\ IF InContainer(key) /\ classify_kind(key) = "image"
              THEN bg_key' = key /\ pc' = "bg_found"
              ELSE /\ bg_key' = bg_key
                   /\ pc' = IF Len(probes') = Len(keys) THEN "ready" ELSE "probing"
    /\ UNCHANGED <<cfgVars, selVars, blenderVars, enumVars, candidates, choice, arr, out_arr, ret, io,
                   tmp_paths, disk, slicer_args>>

\* bg_arr = squeeze_to_3d(f[bg_key][()])
PickBgRead ==
    /\ prog = "main" /\ pc = "bg_found"
    /\ IF squeeze_to_3d_ok(Lookup(bg_key).shape)
       THEN /\ io' = Append(io, "read")
            /\ ret' = ret
            /\ pc' = "bg_read"
       ELSE /\ io' = io \o <<"read", "close">>
            /\ ret' = Raised("ValueError")
            /\ pc' = "finally"
    /\ UNCHANGED <<cfgVars, selVars, blenderVars, enumVars, pickVars, candidates, choice, arr, out_arr>>

\* bg_path = temp_nifti_from_array(...); tmp_paths.append(bg_path); break
PickBgTemp ==
    /\ prog = "main" /\ pc = "bg_read"
    /\ \E written \in BOOLEAN : TempNifti("slicer_tmp_bg", written, "ready")
    /\ UNCHANGED <<cfgVars, selVars, blenderVars, enumVars, candidates, choice, arr, out_arr, probes,
                   bg_key, slicer_args>>

\* rc = run_slicer(...); sys.exit(rc): the host returns a code, or the launch
\* raises
PickRunSlicer ==
    /\ prog = "main" /\ pc = "ready"
    /\ slicer_args' =
          IF choice.kind = "image" THEN <<"--image", "slicer_tmp_img">>
          ELSE <<"--mask", "slicer_tmp_mask">>
               \o (IF bg /\ \E i \in DOMAIN tmp_paths : tmp_paths[i] = "slicer_tmp_bg"
                   THEN <<"--background", "slicer_tmp_bg">> ELSE <<>>)
    /\ \/ \E rc \in {"0", "1"} :
             /\ ret' = Exited(rc)
             /\ io' = io \o <<"run_slicer", "close">>
       \/ /\ ret' = Raised("OSError")
          /\ io' = Append(io, "close")
    /\ pc' = "finally"
    /\ UNCHANGED <<cfgVars, selVars, blenderVars, enumVars, candidates, choice, arr, out_arr, probes,
                   bg_key, tmp_paths, disk>>

\* finally: os.remove every path of tmp_paths; a failed removal is swallowed
PickCleanup ==
    /\ prog = "main" /\ pc = "finally"
    /\ \E failed \in SUBSET {tmp_paths[i] : i \in DOMAIN tmp_paths} :
          disk' = disk \ ({tmp_paths[i] : i \in DOMAIN tmp_paths} \ failed)
    /\ io' = Append(io, "cleanup")
    /\ pc' = "done"
    /\ UNCHANGED <<cfgVars, selVars, blenderVars, enumVars, candidates, choice, arr, out_arr, ret,
                   probes, bg_key, tmp_paths, slicer_args>>

InitPick ==
    /\ prog = "main"
    /\ h5 \in Containers(PickObjects, MaxPickEntries)
    /\ force_kind \in {"None", "image", "mask"}
    /\ mask_mode = "auto"
    /\ threshold = DEFAULT_THRESHOLD
    /\ dry_run = FALSE
    /\ bg \in BOOLEAN
    /\ EnumIdle
    /\ RunIdle
    /\ PickIdle
    /\ SeedIdle
    /\ BlenderIdle

NextPick ==
    \/ PickOpen \/ PickList \/ PickSelect \/ PickRead
    \/ PickImageTemp \/ PickMaskTemp
    \/ PickProbe \/ PickBgRead \/ PickBgTemp
    \/ PickRunSlicer \/ PickCleanup

SpecPick == InitPick /\ [][NextPick]_vars

-----------------------------------------------------------------------------
(* Claims about the companion lookup of main.                              *)

\* the container holds a dataset named n that is an image by name
HasImageEntry(n) ==
    /\ \E i \in DOMAIN h5 : h5[i].cls = "Dataset" /\ h5[i].name = n
    /\ classify_kind(n) = "image"

\* the container holds a float dataset named n that list_candidates returns
\* as an image and that squeezes to three dimensions
HasValidImageEntry(n) ==
    \E i \in DOMAIN h5 :
        /\ h5[i] = Dataset(n, "f", <<2, 2, 2>>)
        /\ \E k \in DOMAIN list_candidates(h5, "None") :
              /\ list_candidates(h5, "None")[k].name = n
              /\ list_candidates(h5, "None")[k].kind = "image"

\* the prefixes P with name = P \o sep \o T, P non-empty (and T non-empty
\* when needT)
PrefixesBefore(name, sep, needT) ==
    {SubSeq(name, 1, k - 1) :
        k \in {j \in 2..(Len(name) - Len(sep) + 1) :
                  /\ SubSeq(name, j, j + Len(sep) - 1) = sep
                  /\ needT => j + Len(sep) <= Len(name)}}

\* a mask was picked with --bg and the probe loop has ended without raising
LookupEnded ==
    /\ prog = "main" /\ bg /\ choice.kind = "mask"
    /\ bg_key # None \/ Len(probes) = 3

\* C9 as stated: for a picked mask path P + "_mask_" + T (P and T non-empty) in
\* a container that holds an image entry named P, the lookup derives base P and
\* gives P as the background image.
C9_RoundTripMaskSubstring ==
    LookupEnded =>
        \A P \in PrefixesBefore(choice.name, MASK_SUBSTR, TRUE) :
            HasValidImageEntry(P) => (probes[1] = P /\ bg_key = P)

\* C9 as amended: for a picked mask path P + "_mask_tibia" + T (P non-empty,
\* any T) in a container that holds an image entry named P, the lookup, when
\* --bg is set, derives base P: P is its first probe and the key it accepts
\* as the background image, and it probes no further key.
C9_RoundTripMaskToken ==
    LookupEnded =>
        \A P \in PrefixesBefore(choice.name, <<"_">> \o MASK_TOKEN, FALSE) :
            HasImageEntry(P) => (probes = <<P>> /\ bg_key = P)

\* the mask 7_tibia_L_mask_tibia_L was picked beside the image 7_tibia_L, and
\* the lookup accepted 7_tibia_L
C9_Witness ==
    /\ LookupEnded
    /\ choice.name = S_tibia_L \o S_mask_tibia \o <<"_", "L">>
    /\ HasImageEntry(S_tibia_L)
    /\ bg_key = S_tibia_L

RefExt(k) == IF k = 1 THEN <<>> ELSE IF k = 2 THEN EXT_NII ELSE EXT_NII_GZ

\* probe k of the lookup for the picked mask is in the container and is an
\* image under classify_kind
Qualifies(k) ==
    LET key == base_from_mask(choice.name) \o RefExt(k)
    IN  (\E i \in DOMAIN h5 : h5[i].name = key) /\ classify_kind(key) = "image"

\* C10: the lookup probes base, base.nii, base.nii.gz in that order and uses
\* the first that is in the container and an image under classify_kind; a key
\* that is a mask or other is never used, nor a later probe when an earlier
\* one qualifies; when none qualifies no background is produced and the mask
\* is still displayed without error.
C10_ProbeOrder ==
    (prog = "main" /\ choice.kind = "mask") =>
        /\ Len(probes) <= 3
        /\ ~bg => probes = <<>>
        /\ \A k \in DOMAIN probes :
              /\ probes[k] = base_from_mask(choice.name) \o RefExt(k)
              /\ k < Len(probes) => ~Qualifies(k)
        /\ bg_key # None =>
              /\ Qualifies(Len(probes))
              /\ bg_key = probes[Len(probes)]
              /\ classify_kind(bg_key) = "image"
        /\ (bg_key = None /\ probes # <<>>) => ~Qualifies(Len(probes))
        /\ (\E i \in DOMAIN tmp_paths : tmp_paths[i] = "slicer_tmp_bg") =>
              bg_key # None
        /\ (\E i \in DOMAIN slicer_args : slicer_args[i] = "--background") =>
              bg_key # None
        /\ (pc = "ready" /\ bg /\ \A k \in 1..3 : ~Qualifies(k)) =>
              /\ Len(probes) = 3
              /\ ret.status = "none"
              /\ tmp_paths = <<"slicer_tmp_mask">>
        /\ (slicer_args # <<>> /\ (~bg \/ \A k \in 1..3 : ~Qualifies(k))) =>
              slicer_args = <<"--mask", "slicer_tmp_mask">>

\* base is absent, base.nii and base.nii.gz are both images in the container:
\* the second probe was accepted and the third never made
C10_Witness ==
    /\ prog = "main" /\ choice.kind = "mask" /\ bg
    /\ ~Qualifies(1) /\ Qualifies(2) /\ Qualifies(3)
    /\ Len(probes) = 2
    /\ bg_key = base_from_mask(choice.name) \o EXT_NII
    /\ slicer_args = <<"--mask", "slicer_tmp_mask", "--background", "slicer_tmp_bg">>

\* the base exists but is a mask by name, no probe qualifies, and the mask
\* alone was handed to the host
C10_WitnessNoCompanion ==
    /\ prog = "main" /\ choice.kind = "mask" /\ bg
    /\ InContainer(base_from_mask(choice.name))
    /\ classify_kind(base_from_mask(choice.name)) = "mask"
    /\ Len(probes) = 3 /\ bg_key = None
    /\ slicer_args = <<"--mask", "slicer_tmp_mask">>
    /\ ret.status = "exit"

-----------------------------------------------------------------------------
(* Claims about main's temporary files and the container handle.           *)

\* the paths main's finally block tries to remove
RemovalAttempted ==
    IF Did("cleanup") THEN {tmp_paths[i] : i \in DOMAIN tmp_paths} ELSE {}

\* C11: on every exit path of main, removal is attempted for every temporary
\* file created during the invocation, so a file that is on disk when main has
\* terminated is one whose deletion failed; and no temporary file is removed
\* before the finally block, which runs after the host process has returned.
C11_TempFilesRemoved ==
    prog = "main" =>
        /\ pc = "done" => disk \subseteq RemovalAttempted
        /\ pc # "done" => {tmp_paths[i] : i \in DOMAIN tmp_paths} \subseteq disk
        /\ (Did("cleanup") /\ slicer_args # <<>>) =>
              \E i, j \in DOMAIN io :
                  i < j /\ io[i] \in {"run_slicer", "close"} /\ io[j] = "cleanup"

\* convert_one and main side by side: a run of either program
InitRuns == InitConvert \/ InitPick

NextRuns == NextConvert \/ NextPick

SpecRuns == InitRuns /\ [][NextRuns]_vars

\* the h5py.File of the with block is open
HandleOpen == Did("open") /\ ~Did("close")

\* the operations the claim places after the release of the handle
AfterRelease == {"save", "run_slicer"}

\* C12: in convert_one and in main the container handle is released after
\* enumeration: it is closed when the selected entry is normalized and written
\* out (to the output file, or to main's temporary files), closed before the
\* host process is launched and while it runs, and closed on every exit path.
C12_HandleScoped ==
    prog \in {"convert_one", "main"} =>
        /\ pc = "done" => ~HandleOpen
        /\ out_arr # NoVolume => ~HandleOpen
        /\ disk # {} => ~HandleOpen
        /\ \A i \in DOMAIN io :
              io[i] \in AfterRelease => \E j \in 1..(i - 1) : io[j] = "close"

-----------------------------------------------------------------------------
(* convert_one invoked repeatedly with the same arguments.                 *)

\* the caller keeps what the invocation selected and invokes convert_one
\* again: rng, candidates and choice are locals, so the new invocation starts
\* from nothing
ConvAgain ==
    /\ prog = "convert_one" /\ pc = "done"
    /\ Len(picks) + 1 < MaxRuns
    /\ picks' = Append(picks, choice)
    /\ pc' = "start"
    /\ candidates' = <<>>
    /\ choice' = NoChoice
    /\ arr' = <<>>
    /\ out_arr' = NoVolume
    /\ ret' = NoRet
    /\ io' = <<>>
    /\ UNCHANGED <<cfgVars, enumVars, pickVars, blenderVars>>

\* dry runs of convert_one on one container, with or without a seed
InitSeed ==
    /\ prog = "convert_one"
    /\ h5 \in Containers(SampleObjects, MaxEntries)
    /\ force_kind \in {"any", "image", "mask"}
    /\ mask_mode = "auto"
    /\ threshold = DEFAULT_THRESHOLD
    /\ dry_run = TRUE
    /\ bg = FALSE
    /\ seed \in {NoSeed} \cup {Seeded(s) : s \in Seeds}
    /\ bitgen \in [Seeds -> 0..MaxWord]
    /\ picks = <<>>
    /\ EnumIdle
    /\ RunIdle
    /\ PickIdle
    /\ BlenderIdle

NextSeed == ConvOpen \/ ConvList \/ ConvSelect \/ ConvAgain

SpecSeed == InitSeed /\ [][NextSeed]_vars

\* C13: with an integer seed and the same candidate sequence, every invocation
\* of convert_one selects the same candidate, and the selected candidate is an
\* element of the candidate list (its index is within 0 .. len(candidates)-1).
C13_SeedDeterminism ==
    prog = "convert_one" =>
        /\ choice # NoChoice =>
              \E k \in 0..(Len(candidates) - 1) : choice = candidates[k + 1]
        /\ seed.given =>
              \A i \in DOMAIN picks :
                  /\ \A j \in DOMAIN picks :
                        (picks[i] # NoChoice /\ picks[j] # NoChoice) =>
                            picks[i] = picks[j]
                  /\ (picks[i] # NoChoice /\ choice # NoChoice) =>
                        choice = picks[i]

\* a seeded invocation selected the second of several candidates, and the next
\* invocation with the same seed selected it again
C13_Witness ==
    /\ prog = "convert_one" /\ seed.given
    /\ Len(picks) = 1 /\ picks[1] # NoChoice
    /\ Len(candidates) >= 2
    /\ choice = candidates[2]
    /\ choice = picks[1]

-----------------------------------------------------------------------------
(* Claims relating main to convert_one, and the shape rule to extraction.  *)

\* C14: for a mask entry and the default configuration (policy auto, threshold
\* 0.5), the mask array main writes to its temporary file holds the element
\* values convert_one writes for the same entry, for integer sources (labels
\* greater than 1 included) and for float sources.
C14_SameMaskAsConvert ==
    (prog = "main" /\ choice.kind = "mask" /\ out_arr.dtype = "uint8"
        /\ (\E i \in DOMAIN tmp_paths : tmp_paths[i] = "slicer_tmp_mask")
        /\ dataset_kind(choice.name, choice.dtype) = "mask") =>
        out_arr.data \in MaskArrays(choice.dtype, arr, "auto", DEFAULT_THRESHOLD)

\* the last three extents of a shape of rank >= 3
LastThree(sh) == SubSeq(sh, Len(sh) - 2, Len(sh))

\* C15: a selected dataset whose shape passes the shape rule (rank >= 3, last
\* three extents > 0, whatever the leading extents) is extracted: squeeze_to_3d
\* succeeds and returns an array whose shape is the last three extents, so the
\* read never fails with the rank-3 shape error.
C15_AcceptedShapeExtracts ==
    (prog = "convert_one" /\ Did("read") /\ RefShapeOk(choice.shape)) =>
        /\ squeeze_to_3d_ok(choice.shape)
        /\ squeeze(choice.shape) = LastThree(choice.shape)
        /\ ~(ret.status = "raise" /\ ret.exc = "ValueError" /\ ~Did("makedirs"))

-----------------------------------------------------------------------------
(* blender.py: export_current_seg_to_blender, step by step.                *)

MaxSegNodes == 2   \* segmentation nodes in the scene
MaxSegments == 2   \* segments (exported model nodes) of a segmentation node

FMT_OBJ == <<"o", "b", "j">>
FMT_PLY == <<"p", "l", "y">>
OutFormats == {FMT_STL, FMT_OBJ, FMT_PLY, <<"S", "T", "L">>, <<"x", "y", "z">>}

Scenes == UNION {[1..n -> 0..MaxSegments] : n \in 0..MaxSegNodes}

\* out_format.lower(), replaced by "stl" when it is not a known format
mesh_format(fmt) ==
    IF Lower(fmt) \in {FMT_STL, FMT_OBJ, FMT_PLY} THEN Lower(fmt) ELSE FMT_STL

\* the temporary file of the i-th exported model
MeshFile(i, fmt) == [prefix |-> "segmesh", index |-> i, suffix |-> fmt]
LoaderFile == [prefix |-> "blender_import", index |-> 0, suffix |-> <<"p", "y">>]

\* seg_nodes = getNodesByClass(...); if not seg_nodes: if verbose: print;
\* return [] -- the return belongs to the `if verbose` suite; then
\* seg_node = seg_nodes[-1], which raises IndexError on an empty list
BlFindNode ==
    /\ prog = "export" /\ pc = "start"
    /\ IF scene = <<>>
       THEN IF verbose
            THEN /\ io' = Append(io, "print")
                 /\ ret' = Returned(None, None)
                 /\ pc' = "done"
            ELSE /\ io' = io
                 /\ ret' = Raised("IndexError")
                 /\ pc' = "done"
       ELSE /\ io' = IF verbose THEN Append(io, "print") ELSE io
            /\ ret' = ret
            /\ pc' = "have_node"
    /\ UNCHANGED <<cfgVars, selVars, blenderVars, enumVars, pickVars,
                   candidates, choice, arr, out_arr>>

\* _ensure_closed_surface(seg_node, ...)
BlEnsureClosedSurface ==
    /\ prog = "export" /\ pc = "have_node"
    /\ io' = Append(io, "closed_surface")
    /\ pc' = "surfaced"
    /\ UNCHANGED <<cfgVars, selVars, blenderVars, enumVars, pickVars,
                   candidates, choice, arr, out_arr, ret>>

\* mesh_paths = _export_segments_to_temp_models(seg_node, out_format): the
\* last node's segments become model nodes; each gets a temporary file and is
\* saved to it; saveNode of model `failed` returns False (0: none fails)
BlExport ==
    /\ prog = "export" /\ pc = "surfaced"
    /\ LET n == scene[Len(scene)]
           fmt == mesh_format(out_format)
       IN  IF n = 0
           THEN /\ io' = Append(io, "export")
                /\ ret' = Raised("RuntimeError")
                /\ pc' = "done"
                /\ UNCHANGED <<disk, mesh_paths>>
           ELSE \E failed \in 0..n :
                   IF failed = 0
                   THEN /\ disk' = disk \cup {MeshFile(i, fmt) : i \in 1..n}
                        /\ mesh_paths' = [i \in 1..n |-> MeshFile(i, fmt)]
                        /\ io' = io \o <<"export">>
                                    \o (IF verbose THEN <<"print">> ELSE <<>>)
                        /\ ret' = ret
                        /\ pc' = "exported"
                   ELSE /\ disk' = disk \cup {MeshFile(i, fmt) : i \in 1..failed}
                        /\ mesh_paths' = mesh_paths
                        /\ io' = Append(io, "export")
                        /\ ret' = Raised("RuntimeError")
                        /\ pc' = "done"
    /\ UNCHANGED <<cfgVars, selVars, enumVars, candidates, choice, arr, out_arr,
                   probes, bg_key, tmp_paths, slicer_args>>

\* loader = _write_blender_loader_script()
BlWriteLoader ==
    /\ prog = "export" /\ pc = "exported"
    /\ disk' = disk \cup {LoaderFile}
    /\ io' = Append(io, "loader")
    /\ pc' = "loader_written"
    /\ UNCHANGED <<cfgVars, selVars, blenderVars, enumVars, candidates, choice,
                   arr, out_arr, ret, probes, bg_key, tmp_paths, slicer_args>>

\* subprocess.Popen(cmd), whose failure is printed and swallowed; then
\* return mesh_paths
BlLaunch ==
    /\ prog = "export" /\ pc = "loader_written"
    /\ \/ io' = io \o (IF verbose THEN <<"print">> ELSE <<>>) \o <<"popen">>
       \/ io' = io \o (IF verbose THEN <<"print">> ELSE <<>>) \o <<"print">>
    /\ ret' = Returned(None, None)
    /\ pc' = "done"
    /\ UNCHANGED <<cfgVars, selVars, blenderVars, enumVars, pickVars,
                   candidates, choice, arr, out_arr>>

InitBlender ==
    /\ prog = "export"
    /\ h5 = <<>>
    /\ force_kind = "None"
    /\ mask_mode = "auto" /\ threshold = DEFAULT_THRESHOLD /\ dry_run = FALSE
    /\ bg = FALSE
    /\ scene \in Scenes
    /\ verbose \in BOOLEAN
    /\ out_format \in OutFormats
    /\ mesh_paths = <<>>
    /\ EnumIdle
    /\ RunIdle
    /\ PickIdle
    /\ SeedIdle

NextBlender ==
    \/ BlFindNode \/ BlEnsureClosedSurface \/ BlExport
    \/ BlWriteLoader \/ BlLaunch

SpecBlender == InitBlender /\ [][NextBlender]_vars

\* C16: when the scene holds no segmentation node, export_current_seg_to_blender
\* returns an empty list without raising, exports no mesh, writes no temporary
\* file and does not launch Blender, with verbose set and with verbose unset.
C16_NoSegmentationReturnsEmpty ==
    (prog = "export" /\ scene = <<>>) =>
        /\ pc \in {"start", "done"}
        /\ pc = "done" => (ret.status = "return" /\ mesh_paths = <<>>)
        /\ disk = {}
        /\ ~Did("closed_surface") /\ ~Did("export")
        /\ ~Did("loader") /\ ~Did("popen")

====
